---- MODULE Spec2Model ----
(***************************************************************************)
(* Model of cargo-clean-helper: the background crawl session started by    *)
(* MyApp::refresh_subdirs (src/app.rs), the directory walker               *)
(* gather_descendant_dirs_streaming (src/crawler.rs) driven by             *)
(* walkdir::WalkDir with follow_links(true) and filter_entry, the mpsc     *)
(* channel between them, and the egui frame handler MyApp::update.         *)
(*                                                                         *)
(* A path is a sequence of one-character strings, so that the substring    *)
(* test of filter_entry is a test on contiguous subsequences.              *)
(***************************************************************************)
EXTENDS Integers, Sequences, FiniteSets, TLC

VARIABLES
    fs,                   \* the file system the walker reads (environment)
    root_dirs,            \* MyApp.root_dirs
    ignore_patterns,      \* MyApp.ignore_patterns
    new_pattern_input,    \* MyApp.new_pattern_input
    subdirs,              \* MyApp.subdirs
    indexing_in_progress, \* MyApp.indexing_in_progress
    chan,                 \* messages buffered in the mpsc channel
    rxAlive,              \* the Receiver (owned by MyApp) still exists
    workers,              \* one record per spawned blocking task
    log                   \* what happened since the last refresh (observation only)

vars == <<fs, root_dirs, ignore_patterns, new_pattern_input, subdirs,
          indexing_in_progress, chan, rxAlive, workers, log>>

----------------------------------------------------------------------------
(* Bounds of the model *)

MaxSessions == 2
MaxPatterns == 2
NumPlaceholders == 1

----------------------------------------------------------------------------
(* Characters and paths *)

Sep == "\\"
Bad == "<invalid-unicode>"
Repl == "<U+FFFD>"
Whitespace == {" "}

RootD == <<"D", ":", Sep, "R", "e", "p", "o", "s">>
RootM == <<"G", ":", Sep, "m", "l">>
RootG == <<"G", ":", Sep, "R", "e", "p", "o", "s">>

InitialRoots == <<RootD, RootM, RootG>>
InitialIgnore == << <<".", "g", "i", "t">> >>
Digits == <<"1", "2", "3", "4", "5", "6", "7", "8", "9">>
Placeholder(i) == <<"S", "u", "b", "d", "i", "r", " ", Digits[i], " ", "-", " ", "a", "s", "d">>
InitialSubdirs == [i \in 1..NumPlaceholders |-> Placeholder(i)]

\* What the user can type into the "Add new ignore pattern" box.
Inputs == { <<" ", "m", "l", " ">>, <<" ", " ">> }

\* str::contains: p occurs in s as a contiguous run of characters.
Contains(s, p) ==
    \E k \in 0..(Len(s) - Len(p)) : SubSeq(s, k + 1, k + Len(p)) = p

RECURSIVE TrimStart(_)
TrimStart(s) ==
    IF s # <<>> /\ Head(s) \in Whitespace THEN TrimStart(Tail(s)) ELSE s

RECURSIVE TrimEnd(_)
TrimEnd(s) ==
    IF s # <<>> /\ s[Len(s)] \in Whitespace
    THEN TrimEnd(SubSeq(s, 1, Len(s) - 1)) ELSE s

\* str::trim
Trim(s) == TrimEnd(TrimStart(s))

\* Path::display().to_string(): lossy, invalid unicode becomes U+FFFD.
Display(path) == [i \in DOMAIN path |-> IF path[i] = Bad THEN Repl ELSE path[i]]

\* Path::join of a directory path and an entry name.
Join(path, name) == path \o <<Sep>> \o name

----------------------------------------------------------------------------
(* The file system.  A node is [parent, name, kind, target, readable];      *)
(* parent 0 marks a node that is looked up by its whole path (a root).      *)
(* kind: "dir", "file", "link" (symbolic link to node target, 0 = dangling) *)
(* and "err" (an entry whose read from the directory stream fails).         *)

Node(p, n, k, t, r) == [parent |-> p, name |-> n, kind |-> k, target |-> t, readable |-> r]

\* D:\Repos = {x\f (a file), .git\obj}, G:\Repos = {a name that is not
\* valid unicode}, G:\ml missing
FsPlain == <<
    Node(0, RootD, "dir", 0, TRUE),
    Node(1, <<"x">>, "dir", 0, TRUE),
    Node(1, <<".", "g", "i", "t">>, "dir", 0, TRUE),
    Node(3, <<"o", "b", "j">>, "dir", 0, TRUE),
    Node(2, <<"f">>, "file", 0, TRUE),
    Node(0, RootG, "dir", 0, TRUE),
    Node(6, <<Bad>>, "dir", 0, TRUE) >>

\* G:\ml is a link to D:\Repos = {l (a link back to D:\Repos), html},
\* G:\Repos = {k (a link to D:\Repos\html)}
FsLinks == <<
    Node(0, RootD, "dir", 0, TRUE),
    Node(0, RootM, "link", 1, TRUE),
    Node(1, <<"l">>, "link", 1, TRUE),
    Node(1, <<"h", "t", "m", "l">>, "dir", 0, TRUE),
    Node(6, <<"k">>, "link", 4, TRUE),
    Node(0, RootG, "dir", 0, TRUE) >>

\* D:\Repos cannot be listed, G:\ml = {e (an entry that fails to read),
\* s = {t, b (a dangling link)}}, G:\Repos is a file
FsErrors == <<
    Node(0, RootD, "dir", 0, FALSE),
    Node(0, RootM, "dir", 0, TRUE),
    Node(2, <<"e">>, "err", 0, TRUE),
    Node(2, <<"s">>, "dir", 0, TRUE),
    Node(4, <<"t">>, "dir", 0, TRUE),
    Node(0, RootG, "file", 0, TRUE),
    Node(4, <<"b">>, "link", 0, TRUE) >>

\* G:\Repos holds one file and no directory, the other roots are missing
FsEmpty == <<
    Node(0, RootG, "dir", 0, TRUE),
    Node(1, <<"f">>, "file", 0, TRUE) >>

FsCases == {FsPlain, FsLinks, FsErrors, FsEmpty}

Children(f, n) == {c \in DOMAIN f : f[c].parent = n}

\* fs::symlink_metadata on a root path: the node, or 0 when nothing is there
Lookup(f, path) ==
    IF \E n \in DOMAIN f : f[n].parent = 0 /\ f[n].name = path
    THEN CHOOSE n \in DOMAIN f : f[n].parent = 0 /\ f[n].name = path
    ELSE 0

\* fs::metadata: follow symbolic links to the node they end at; 0 when the
\* chain dangles or does not end.
RECURSIVE Resolve(_, _, _)
Resolve(f, n, fuel) ==
    IF n = 0 \/ fuel = 0 THEN 0
    ELSE IF f[n].kind = "link" THEN Resolve(f, f[n].target, fuel - 1)
    ELSE n

----------------------------------------------------------------------------
(* walkdir: IntoIter with follow_links(true), wrapped in FilterEntry *)

\* One open directory of IntoIter.stack_list (with its stack_path ancestor):
\* path as reported, the directory actually read, the entries not yet
\* yielded, and whether fs::read_dir failed (yielded once as an error).
DirList(f, path, phys) ==
    [path |-> path, phys |-> phys,
     rest |-> IF f[phys].readable THEN Children(f, phys) ELSE {},
     err  |-> ~f[phys].readable]

\* (variant: links are followed without loop detection)
CheckLoopNever(stack, phys) == FALSE

\* IntoIter::check_loop: the directory is one of the open ancestors
CheckLoop(stack, phys) == \E k \in DOMAIN stack : stack[k].phys = phys

\* (variant: follow_links(false), a link is reported as it is)
HandleEntryNoFollow(f, n, stack) ==
    IF f[n].kind = "err" THEN [ok |-> FALSE, is_dir |-> FALSE, phys |-> 0]
    ELSE [ok |-> TRUE, is_dir |-> f[n].kind = "dir", phys |-> n]

\* IntoIter::handle_entry (with IntoIter::follow) for entry n: an error, or
\* an entry with the file type of what it points at.
HandleEntry(f, n, stack) ==
    LET t == Resolve(f, n, Len(f))
    IN  IF f[n].kind = "err" THEN [ok |-> FALSE, is_dir |-> FALSE, phys |-> 0]
        ELSE IF t = 0 THEN [ok |-> FALSE, is_dir |-> FALSE, phys |-> 0]
        ELSE IF f[t].kind # "dir" THEN [ok |-> TRUE, is_dir |-> FALSE, phys |-> t]
        ELSE IF f[n].kind = "link" /\ CheckLoop(stack, t)
             THEN [ok |-> FALSE, is_dir |-> FALSE, phys |-> 0]
        ELSE [ok |-> TRUE, is_dir |-> TRUE, phys |-> t]

\* (variant: the entry is dropped but its directory stays open, as with
\* Iterator::filter in place of filter_entry)
SkipNothing(stack) == stack

\* IntoIter::skip_current_dir
SkipCurrentDir(stack) ==
    IF stack = <<>> THEN stack ELSE SubSeq(stack, 1, Len(stack) - 1)

\* (variant: `all` in place of `any`)
filter_entry_all(path, ignore_list) ==
    ~ \A k \in DOMAIN ignore_list : Contains(Display(path), ignore_list[k])

\* filter_entry of crawler.rs: FALSE when the entry is to be skipped
filter_entry(path, ignore_list) ==
    ~ \E k \in DOMAIN ignore_list : Contains(Display(path), ignore_list[k])

\* The path the closure given to WalkDir::filter_entry tests for an entry
FilterPath(path, name) == path

\* (variant: the closure reads the list the application is editing)
FilterListShared(w) == ignore_patterns

\* The list the closure given to WalkDir::filter_entry consults
FilterList(w) == w.ignore_list

\* The targets the crate builds for.  They differ in IntoIter::push for a
\* directory that cannot be opened for reading: on "windows" the handle that
\* loop detection keeps of every open directory cannot be taken, push fails
\* and the directory is yielded as an error only; on "unix" the directory is
\* yielded and the failure of fs::read_dir comes as the next item.
Targets == {"unix", "windows"}

PushFails(f, phys, target) == target = "windows" /\ ~f[phys].readable

\* What one call of FilterEntry::next does with the entry `n` reported as
\* `path`, `stack` being the open directories without that entry:
\* res is "error" (Err yielded), "pruned" (predicate false, not yielded),
\* "dir" or "file" (Ok yielded).  `target` is the build target.
Visit(f, w, stack, path, name, n, target) ==
    LET h      == HandleEntry(f, n, stack)
        pushed == IF h.ok /\ h.is_dir
                  THEN Append(stack, DirList(f, path, h.phys)) ELSE stack
        keep   == filter_entry(FilterPath(path, name), FilterList(w))
    IN  IF ~h.ok THEN [res |-> "error", stack |-> stack, phys |-> 0]
        ELSE IF h.is_dir /\ PushFails(f, h.phys, target)
             THEN [res |-> "error", stack |-> stack, phys |-> 0]
        ELSE IF ~keep
             THEN [res |-> "pruned", phys |-> h.phys,
                   stack |-> IF h.is_dir THEN SkipCurrentDir(pushed) ELSE pushed]
        ELSE [res |-> IF h.is_dir THEN "dir" ELSE "file",
              stack |-> pushed, phys |-> h.phys]

\* What the call can come to, over the targets
Yields(f, w, stack, path, name, n) ==
    {Visit(f, w, stack, path, name, n, target) : target \in Targets}

----------------------------------------------------------------------------
(* The channel and the observation log *)

Subdir(path, s) == [kind |-> "Subdir", path |-> path, sess |-> s]
Done(s) == [kind |-> "Done", path |-> <<>>, sess |-> s]

\* Sender::send: buffers the message, or fails once the Receiver is gone
SendOk == rxAlive

\* (variant: a channel of sync_channel(1), a send waits while it is full)
HasRoomBounded(c) == Len(c) < 1

\* The channel of mpsc::channel() buffers without bound: there is room for
\* one more message whatever it holds already.
HasRoom(c) == TRUE

Send(msg) ==
    /\ SendOk => HasRoom(chan)
    /\ chan' = IF SendOk THEN Append(chan, msg) ELSE chan

\* res: "sent"/"failed" (a Subdir send and its result), "pruned", "file",
\* "error" (what else happened to a visited entry), "done"/"done_failed"
\* (the Done send and its result).
Ev(s, root, path, phys, res) ==
    [sess |-> s, root |-> root, path |-> path, phys |-> phys, res |-> res]

\* The first entry of the log: the session that was last started, with the
\* root list and the ignore patterns the application held at that moment.
\* edited: some entry has been visited since at a moment when the patterns
\* the application then held would have decided otherwise about it.
Begin(s, roots, ignore) ==
    [sess |-> s, root |-> 0, path |-> <<>>, phys |-> 0, res |-> "begin",
     roots |-> roots, ignore |-> ignore, edited |-> FALSE]

\* The log after the visit of `path` has been recorded as event e.
Record(path, e) ==
    Append([log EXCEPT ![1].edited =
                @ \/ (e.res \in {"sent", "failed", "pruned", "file"}
                      /\ filter_entry(path, ignore_patterns)
                           # filter_entry(path, log[1].ignore))],
           e)

----------------------------------------------------------------------------
(* The blocking task spawned by refresh_subdirs *)

\* start: the walker of the current root has not yielded its root entry yet
NewWorker(roots, ignore) ==
    [pc |-> "walk", root_dirs |-> roots, ignore_list |-> ignore,
     i |-> 1, start |-> TRUE, stack |-> <<>>]

\* The closure has returned: what it had captured is dropped.
Finished ==
    [pc |-> "done", root_dirs |-> <<>>, ignore_list |-> <<>>,
     i |-> 0, start |-> FALSE, stack |-> <<>>]

\* (variant: the list is taken from its end)
CurrentRootReversed(w) == w.root_dirs[Len(w.root_dirs) - w.i + 1]

\* (variant: every turn of the loop walks the first root)
CurrentRootFirst(w) == w.root_dirs[1]

\* `for root in root_dirs`: the root the loop is at
CurrentRoot(w) == w.root_dirs[w.i]

\* the loop moves on to the root after the one whose walk returned
NextRoot(w) == w.i + 1

\* gather_descendant_dirs_streaming returns: the walker is dropped
Returned(w) == [w EXCEPT !.i = NextRoot(w), !.start = TRUE, !.stack = <<>>]

\* (variant: the loop leaves one root too early)
RootsExhaustedEarly(w) == w.i >= Len(w.root_dirs)

\* the loop over the roots is over
RootsExhausted(w) == w.i > Len(w.root_dirs)

\* (variant: the failed send ends the whole task, which returns at once)
StoppedAbortsTask(w) == Finished

\* (variant: the failed send also ends the loop over the roots)
StoppedSkipsRest(w) ==
    [w EXCEPT !.i = Len(w.root_dirs) + 1, !.start = TRUE, !.stack = <<>>]

\* `break` after a failed send: the walk of this root is over
Stopped(w) == Returned(w)

\* (variant: the guard on the file type is missing)
EmitsFiles(v) == v.res \in {"dir", "file"}

\* The arm `Ok(entry) if entry.file_type().is_dir()` is taken
Emits(v) == v.res = "dir"

\* (variant: an Err item is unwrapped, the task dies on it)
SkippedPanicsOnErr(w, v) ==
    IF v.res = "error" THEN Finished
    ELSE [w EXCEPT !.start = FALSE, !.stack = v.stack]

\* (variant: an Err item ends the walk of the root, `Err(_) => break`)
SkippedBreaksOnErr(w, v) ==
    IF v.res = "error" THEN Returned(w)
    ELSE [w EXCEPT !.start = FALSE, !.stack = v.stack]

\* The arm `_ => {}`: a file, or an Err item, is passed over and the loop
\* asks the walker for its next item.
Skipped(w, v) == [w EXCEPT !.start = FALSE, !.stack = v.stack]

\* The body of `for entry_result in walker` for one visited entry.
LoopBody(s, w, v, path) ==
    IF Emits(v)
    THEN /\ Send(Subdir(path, s))
         /\ workers' = [workers EXCEPT ![s] =
                IF SendOk THEN [w EXCEPT !.start = FALSE, !.stack = v.stack]
                ELSE Stopped(w)]
         /\ log' = Record(path, Ev(s, w.i, path, v.phys,
                              IF SendOk THEN "sent" ELSE "failed"))
    ELSE /\ workers' = [workers EXCEPT ![s] = Skipped(w, v)]
         /\ log' = Record(path, Ev(s, w.i, path, v.phys, v.res))
         /\ UNCHANGED chan

UiVars == <<fs, root_dirs, ignore_patterns, new_pattern_input, subdirs,
            indexing_in_progress, rxAlive>>

\* First item of the walker: the root itself (IntoIter.start.take()).
WalkRoot(s) ==
    LET w == workers[s]
        path == CurrentRoot(w)
        n == Lookup(fs, path)
    IN  /\ UNCHANGED UiVars
        /\ w.pc = "walk" /\ ~RootsExhausted(w) /\ w.start
        /\ IF n = 0
           THEN LoopBody(s, w, [res |-> "error", stack |-> <<>>, phys |-> 0], path)
           ELSE \E v \in Yields(fs, w, <<>>, path, path, n) : LoopBody(s, w, v, path)

\* Next item: an entry of the innermost open directory, in whatever order
\* the operating system lists them.
WalkEntry(s) ==
    LET w == workers[s]
        d == Len(w.stack)
    IN  /\ UNCHANGED UiVars
        /\ w.pc = "walk" /\ ~RootsExhausted(w) /\ ~w.start /\ d > 0
        /\ ~w.stack[d].err
        /\ \E n \in w.stack[d].rest :
             LET stack == [w.stack EXCEPT ![d].rest = @ \ {n}]
                 path == Join(w.stack[d].path, fs[n].name)
             IN  \E v \in Yields(fs, w, stack, path, fs[n].name, n) :
                     LoopBody(s, w, v, path)

\* Next item: the error of a directory that could not be opened.
WalkReadDirError(s) ==
    LET w == workers[s]
        d == Len(w.stack)
    IN  /\ w.pc = "walk" /\ ~RootsExhausted(w) /\ ~w.start /\ d > 0
        /\ w.stack[d].err
        /\ LoopBody(s, w, [res |-> "error", phys |-> 0,
                           stack |-> [w.stack EXCEPT ![d].err = FALSE]],
                    w.stack[d].path)
        /\ UNCHANGED UiVars

\* The innermost directory has no entry left: IntoIter::pop.
WalkPop(s) ==
    LET w == workers[s]
        d == Len(w.stack)
    IN  /\ w.pc = "walk" /\ ~RootsExhausted(w) /\ ~w.start /\ d > 0
        /\ ~w.stack[d].err /\ w.stack[d].rest = {}
        /\ workers' = [workers EXCEPT ![s].stack = SubSeq(w.stack, 1, d - 1)]
        /\ UNCHANGED <<UiVars, chan, log>>

\* No open directory is left: the walker is exhausted and
\* gather_descendant_dirs_streaming returns.
WalkEnd(s) ==
    LET w == workers[s]
    IN  /\ w.pc = "walk" /\ ~RootsExhausted(w) /\ ~w.start /\ w.stack = <<>>
        /\ workers' = [workers EXCEPT ![s] = Returned(w)]
        /\ UNCHANGED <<UiVars, chan, log>>

\* After the loop over the roots: `let _ = tx_clone.send(AppMessage::Done)`.
SendDone(s) ==
    LET w == workers[s]
    IN  /\ w.pc = "walk" /\ RootsExhausted(w)
        /\ Send(Done(s))
        /\ workers' = [workers EXCEPT ![s] = Finished]
        /\ log' = Append(log, Ev(s, 0, <<>>, 0, IF SendOk THEN "done" ELSE "done_failed"))
        /\ UNCHANGED UiVars

----------------------------------------------------------------------------
(* MyApp::update, one frame: drain the channel, apply, then the widgets *)

\* (variant: the drained messages are applied last first)
RECURSIVE PathsOfReversed(_)
PathsOfReversed(msgs) ==
    IF msgs = <<>> THEN <<>>
    ELSE IF Head(msgs).kind = "Subdir"
         THEN PathsOfReversed(Tail(msgs)) \o <<Head(msgs).path>>
         ELSE PathsOfReversed(Tail(msgs))

\* the paths of the Subdir messages among msgs, in the order of msgs
RECURSIVE PathsOf(_)
PathsOf(msgs) ==
    IF msgs = <<>> THEN <<>>
    ELSE IF Head(msgs).kind = "Subdir"
         THEN <<Head(msgs).path>> \o PathsOf(Tail(msgs))
         ELSE PathsOf(Tail(msgs))

\* subdirs after steps 1) and 2) of update
DrainedSubdirs == subdirs \o PathsOf(chan)

\* (variant: a Done message is taken from the channel and has no effect)
DrainedFlagSticky == indexing_in_progress

\* indexing_in_progress after steps 1) and 2) of update
DrainedFlag ==
    IF \E k \in DOMAIN chan : chan[k].kind = "Done" THEN FALSE
    ELSE indexing_in_progress

\* A frame in which no button is clicked.
Update ==
    /\ rxAlive
    /\ subdirs' = DrainedSubdirs
    /\ indexing_in_progress' = DrainedFlag
    /\ chan' = <<>>
    /\ UNCHANGED <<fs, root_dirs, ignore_patterns, new_pattern_input, rxAlive, workers, log>>

\* (variant: the button is added with ui.add, enabled in every frame)
RefreshAlwaysEnabled == TRUE

\* ui.add_enabled(!self.indexing_in_progress, ..): the button takes a click
\* in a frame whose drain has left the flag false
RefreshEnabled == ~DrainedFlag

\* (variant: refresh_subdirs without self.subdirs.clear())
ClearedSubdirsKept == DrainedSubdirs

\* self.subdirs.clear()
ClearedSubdirs == <<>>

\* A frame in which the enabled "Refresh subdirs" button is clicked:
\* refresh_subdirs.
UpdateRefresh ==
    /\ rxAlive
    /\ RefreshEnabled
    /\ Len(workers) < MaxSessions
    /\ subdirs' = ClearedSubdirs
    /\ indexing_in_progress' = TRUE
    /\ chan' = <<>>
    /\ workers' = Append(workers, NewWorker(root_dirs, ignore_patterns))
    /\ log' = <<Begin(Len(workers) + 1, root_dirs, ignore_patterns)>>
    /\ UNCHANGED <<fs, root_dirs, ignore_patterns, new_pattern_input, rxAlive>>

\* (variant: the test on the text is missing)
AcceptsAny(input) == TRUE

\* !self.new_pattern_input.trim().is_empty()
Accepts(input) == Trim(input) # <<>>

\* A frame in which the text box holds `input` and "Add" is clicked.
UpdateAdd(input) ==
    /\ rxAlive
    /\ subdirs' = DrainedSubdirs
    /\ indexing_in_progress' = DrainedFlag
    /\ chan' = <<>>
    /\ IF Accepts(input)
       THEN /\ Len(ignore_patterns) < MaxPatterns
            /\ ignore_patterns' = Append(ignore_patterns, Trim(input))
            /\ new_pattern_input' = <<>>
       ELSE /\ new_pattern_input' = input
            /\ UNCHANGED ignore_patterns
    /\ UNCHANGED <<fs, root_dirs, rxAlive, workers, log>>

RemoveAt(seq, i) == SubSeq(seq, 1, i - 1) \o SubSeq(seq, i + 1, Len(seq))

\* A frame in which the "-" button of pattern i is clicked.
UpdateRemove(i) ==
    /\ rxAlive
    /\ i \in DOMAIN ignore_patterns
    /\ subdirs' = DrainedSubdirs
    /\ indexing_in_progress' = DrainedFlag
    /\ chan' = <<>>
    /\ ignore_patterns' = RemoveAt(ignore_patterns, i)
    /\ UNCHANGED <<fs, root_dirs, new_pattern_input, rxAlive, workers, log>>

\* The window is closed: MyApp is dropped and with it the Receiver and what
\* it still buffered.
CloseApp ==
    /\ rxAlive
    /\ rxAlive' = FALSE
    /\ chan' = <<>>
    /\ UNCHANGED <<fs, root_dirs, ignore_patterns, new_pattern_input, subdirs,
                   indexing_in_progress, workers, log>>

----------------------------------------------------------------------------

Init ==
    /\ fs \in FsCases
    /\ root_dirs = InitialRoots
    /\ ignore_patterns = InitialIgnore
    /\ new_pattern_input = <<>>
    /\ subdirs = InitialSubdirs
    /\ indexing_in_progress = FALSE
    /\ chan = <<>>
    /\ rxAlive = TRUE
    /\ workers = <<>>
    /\ log = <<>>

Next ==
    \/ \E s \in DOMAIN workers : WalkRoot(s)
    \/ \E s \in DOMAIN workers : WalkEntry(s)
    \/ \E s \in DOMAIN workers : WalkReadDirError(s)
    \/ \E s \in DOMAIN workers : WalkPop(s)
    \/ \E s \in DOMAIN workers : WalkEnd(s)
    \/ \E s \in DOMAIN workers : SendDone(s)
    \/ Update
    \/ UpdateRefresh
    \/ \E input \in Inputs : UpdateAdd(input)
    \/ \E i \in 1..MaxPatterns : UpdateRemove(i)
    \/ CloseApp

Spec == Init /\ [][Next]_vars

----------------------------------------------------------------------------
(* Reading the log *)

\* the session the log is about
Logged == IF log = <<>> THEN 0 ELSE log[1].sess

\* positions of the log after its first entry
Events == 2..Len(log)

IsDone(e) == e.res \in {"done", "done_failed"}
IsSend(e) == e.res \in {"sent", "failed"}

\* p is the beginning of s
IsPrefix(p, s) == Len(p) <= Len(s) /\ SubSeq(s, 1, Len(p)) = p

----------------------------------------------------------------------------
(* The session controller *)

\* C1: every session sends Done exactly once: a task that has returned has
\* executed the send of Done once, a task still walking has not executed
\* it, whether the roots exist or not, whether a walk was cut short or not,
\* and whether the Receiver still exists or not; and a task that is no
\* longer the latest one has returned.
C1_ExactlyOneDone ==
    \A s \in DOMAIN workers :
        /\ s # Logged => workers[s].pc = "done"
        /\ s = Logged =>
             Cardinality({k \in Events : log[k].sess = s /\ IsDone(log[k])})
               = IF workers[s].pc = "done" THEN 1 ELSE 0

\* a session has returned after a root that does not exist, a walk that was
\* cut short by a failed send, and with the Receiver gone
C1_Witness ==
    /\ Logged \in DOMAIN workers /\ workers[Logged].pc = "done"
    /\ \E k \in Events : log[k].res = "done_failed"
    /\ \E k \in Events : log[k].res = "failed"
    /\ \E k \in Events : log[k].res = "error" /\ log[k].path = log[1].roots[log[k].root]

\* C2: Done is the last thing a session does: nothing of the session
\* follows it, in the log or in the channel, and by then the walker has been
\* run on every root of the list, the last one included.
C2_DoneIsLast ==
    /\ \A k \in Events : IsDone(log[k]) =>
         /\ \A j \in Events : j > k => log[j].sess # log[k].sess
         /\ \A r \in DOMAIN log[1].roots :
              \E j \in Events : j < k /\ log[j].sess = log[k].sess /\ log[j].root = r
    /\ \A k \in DOMAIN chan : chan[k].kind = "Done" =>
         \A j \in DOMAIN chan : j > k => chan[j].sess # chan[k].sess

\* Done is buffered behind a directory of the last root
C2_Witness ==
    /\ Len(chan) >= 2
    /\ chan[Len(chan)].kind = "Done"
    /\ chan[Len(chan) - 1].kind = "Subdir"
    /\ \E k \in Events : /\ log[k].res = "sent" /\ log[k].root = Len(log[1].roots)
                         /\ log[k].path = chan[Len(chan) - 1].path

----------------------------------------------------------------------------
(* Pruning *)

\* C3: no path a session reports contains one of the ignore patterns the
\* session was started with; the root is tested like every other entry.
C3_NoPatternInEmitted ==
    \A k \in Events : IsSend(log[k]) =>
        \A i \in DOMAIN log[1].ignore : ~Contains(log[k].path, log[1].ignore[i])

\* a root itself was pruned, and another root of the session was reported
C3_Witness ==
    /\ \E k \in Events : /\ log[k].res = "pruned"
                         /\ log[k].path = log[1].roots[log[k].root]
    /\ \E k \in Events : log[k].res = "sent"
    /\ Len(log[1].ignore) = 2

\* C4: once a directory has been pruned, nothing below it is visited in
\* that walk: no entry whose path continues the pruned path.
C4_PrunedSubtreeNotVisited ==
    \A k \in Events : log[k].res = "pruned" =>
        \A j \in Events :
            (log[j].sess = log[k].sess /\ log[j].root = log[k].root)
            => ~IsPrefix(log[k].path \o <<Sep>>, log[j].path)

\* a directory that has entries was pruned and its root's walk is over
C4_Witness ==
    \E k \in Events :
        /\ log[k].res = "pruned"
        /\ log[k].phys # 0 /\ fs[log[k].phys].kind = "dir"
        /\ Children(fs, log[k].phys) # {}
        /\ \E j \in Events : j > k /\ log[j].root > log[k].root

----------------------------------------------------------------------------
(* Order of the roots *)

\* C5: the roots are walked one after the other in list order: in a
\* session's log the roots never go back, and what is visited during the
\* walk of the i-th root lies under the i-th path of the root list.
C5_RootSequential ==
    \A k \in Events : ~IsDone(log[k]) =>
        /\ IsPrefix(log[1].roots[log[k].root], log[k].path)
        /\ \A j \in Events :
             (j < k /\ log[j].sess = log[k].sess /\ ~IsDone(log[j]))
             => log[j].root <= log[k].root

\* directories of two different roots have been sent, in this order
C5_Witness ==
    \E j, k \in Events :
        /\ j < k /\ log[j].res = "sent" /\ log[k].res = "sent"
        /\ log[j].root < log[k].root
        /\ Len(subdirs) + Len(chan) >= 2

----------------------------------------------------------------------------
(* Closing the consumer *)

\* C6: a failed send ends the walk of the root it happened in and nothing
\* else: nothing more is visited for that root, yet the walker is still run
\* on every root of the list before the task sends Done and returns.
C6_FailedSendStopsOnlyCurrentRoot ==
    /\ \A k \in Events : log[k].res = "failed" =>
         \A j \in Events :
             (j > k /\ log[j].sess = log[k].sess) => log[j].root # log[k].root
    /\ \A k \in Events : IsDone(log[k]) =>
         \A r \in DOMAIN log[1].roots :
             \E j \in Events : j < k /\ log[j].sess = log[k].sess /\ log[j].root = r

\* the consumer went away in the middle of the first root's walk (the root
\* was delivered, the send of one of its several entries failed), and the
\* walker was still run on the last root before the task returned
C6_Witness ==
    \E j, k, m \in Events :
        /\ j < k /\ k < m
        /\ log[j].res = "sent" /\ log[j].root = 1
        /\ log[k].res = "failed" /\ log[k].root = 1
        /\ Cardinality({c \in DOMAIN fs : fs[c].parent = log[j].phys}) >= 2
        /\ log[m].root = Len(log[1].roots)
        /\ workers[log[1].sess].pc = "done"

----------------------------------------------------------------------------
(* Snapshot of the ignore patterns *)

\* C7: what a session prunes and what it keeps is decided by the patterns
\* the application held when the session was started, whatever the user
\* adds or removes while the session runs.
C7_SnapshotIsolation ==
    \A k \in Events :
        (log[k].res \in {"sent", "failed", "pruned", "file"})
        => ((log[k].res = "pruned") <=> ~filter_entry(log[k].path, log[1].ignore))

\* the patterns were edited while the session ran, and an entry was then
\* visited about which the edited list decides otherwise
C7_Witness ==
    /\ log # <<>> /\ log[1].edited
    /\ log[1].ignore # ignore_patterns

----------------------------------------------------------------------------
(* What one root yields *)

\* the node a root path leads to, 0 when there is none
RootNode(f, path) == Resolve(f, Lookup(f, path), Len(f))

\* directory n holds no entry that is a directory or leads to one
NoSubdirs(f, n) ==
    \A c \in Children(f, n) :
        Resolve(f, c, Len(f)) = 0 \/ f[Resolve(f, c, Len(f))].kind # "dir"

\* the paths sent during the walk of root r, in the order they were sent
RECURSIVE SentOf(_, _)
SentOf(es, r) ==
    IF es = <<>> THEN <<>>
    ELSE IF Head(es).res = "sent" /\ Head(es).root = r
         THEN <<Head(es).path>> \o SentOf(Tail(es), r)
         ELSE SentOf(Tail(es), r)

\* the walk of root r is over: a later root or Done is in the log
WalkOver(r) == \E k \in Events : log[k].root > r \/ IsDone(log[k])

\* root r is an existing readable directory without subdirectories that no
\* pattern of the session matches
ScenarioA(r) ==
    LET n == RootNode(fs, log[1].roots[r])
    IN  /\ n # 0 /\ fs[n].kind = "dir" /\ fs[n].readable
        /\ NoSubdirs(fs, n)
        /\ filter_entry(log[1].roots[r], log[1].ignore)

SinkOpen == \A k \in Events : log[k].res \notin {"failed", "done_failed"}

\* C8 as stated: a root directory without subdirectories yields no
\* Subdir message at all.
C8_Original ==
    \A r \in DOMAIN InitialRoots :
        (log # <<>> /\ SinkOpen /\ WalkOver(r) /\ ScenarioA(r))
        => SentOf(log, r) = <<>>

\* C8 amended: a root directory without subdirectories, matched by no
\* pattern, yields exactly one Subdir message, the root itself; when it is
\* the only root that exists, the session sends that one message and then
\* Done, and nothing else.
C8_EmptyRootYieldsItself ==
    \A r \in DOMAIN InitialRoots :
        (log # <<>> /\ SinkOpen /\ WalkOver(r) /\ ScenarioA(r))
        => /\ SentOf(log, r) = <<log[1].roots[r]>>
           /\ (fs = FsEmpty /\ workers[Logged].pc = "done")
              => /\ Cardinality({k \in Events : IsSend(log[k])}) = 1
                 /\ log[Len(log)].res = "done"

\* the session over a single existing root, a directory holding one file,
\* has returned, and its Done is buffered behind the one Subdir
C8_Witness ==
    /\ fs = FsEmpty /\ log # <<>> /\ SinkOpen
    /\ workers[Logged].pc = "done"
    /\ ScenarioA(3)
    /\ Len(chan) = 2 /\ chan[1].kind = "Subdir" /\ chan[2].kind = "Done"

\* The directories root r is expected to yield: the entry itself when it is
\* (or leads to) a directory no pattern matches, and what the entries of
\* that directory yield in turn.
RECURSIVE Expected(_, _, _, _, _)
Expected(f, path, n, ignore, fuel) ==
    LET t == Resolve(f, n, Len(f))
    IN  IF fuel = 0 \/ t = 0 \/ f[t].kind # "dir" \/ ~filter_entry(path, ignore)
        THEN {}
        ELSE {path} \cup UNION { Expected(f, Join(path, f[c].name), c, ignore, fuel - 1)
                                 : c \in Children(f, t) }

Range(seq) == {seq[k] : k \in DOMAIN seq}

NoErrors(r) == \A k \in Events : log[k].root = r => log[k].res # "error"

\* C9: with the sink open and no traversal error, the walk of a root sends
\* exactly the directories (never a file) reached from the root through
\* directories no pattern matches, each once, the root itself first.
C9_ExactlyTheReachableDirs ==
    \A r \in DOMAIN InitialRoots :
        (log # <<>> /\ SinkOpen /\ WalkOver(r) /\ NoErrors(r))
        => LET sent == SentOf(log, r)
               root == log[1].roots[r]
           IN  /\ Range(sent) = Expected(fs, root, Lookup(fs, root), log[1].ignore, Len(fs) + 1)
               /\ sent # <<>> => sent[1] = root
               /\ \A k \in Events : IsSend(log[k]) => fs[log[k].phys].kind = "dir"

\* Scenario B: the tree {root, root\x, root\.git\obj} walked with the
\* ignore list [".git"] has sent the root and then root\x, and only these
C9_Witness ==
    /\ fs = FsPlain /\ log # <<>> /\ SinkOpen /\ WalkOver(1) /\ NoErrors(1)
    /\ log[1].ignore = InitialIgnore
    /\ SentOf(log, 1) = <<RootD, Join(RootD, <<"x">>)>>
    /\ \E k \in Events : log[k].res = "file"
    /\ workers[Logged].pc = "done"

----------------------------------------------------------------------------
(* Repeated directories *)

\* C10 as stated: no directory gets two Subdir messages in one session.
C10_Original ==
    \A j, k \in Events :
        (j < k /\ log[j].res = "sent" /\ log[k].res = "sent"
         /\ log[j].sess = log[k].sess)
        => log[j].phys # log[k].phys

\* C10 amended: with the root list of the application (D:\Repos, G:\ml,
\* G:\Repos) no path is sent twice in one session; a directory that is
\* reached under several paths gets one message for each of these paths.
C10_NoPathTwice ==
    \A j, k \in Events :
        (j < k /\ IsSend(log[j]) /\ IsSend(log[k]) /\ log[j].sess = log[k].sess)
        => log[j].path # log[k].path

\* one directory has been sent under two paths
C10_Witness ==
    \E j, k \in Events :
        /\ j < k /\ log[j].res = "sent" /\ log[k].res = "sent"
        /\ log[j].phys = log[k].phys /\ log[j].path # log[k].path

----------------------------------------------------------------------------
(* The consumer *)

\* every path the latest session has sent successfully, in sending order
RECURSIVE AllSent(_)
AllSent(es) ==
    IF es = <<>> THEN <<>>
    ELSE IF Head(es).res = "sent"
         THEN <<Head(es).path>> \o AllSent(Tail(es))
         ELSE AllSent(Tail(es))

\* C11: a frame takes all that is buffered and applies it in order: once a
\* session has been started, the paths the application holds are a prefix of
\* what the session has sent, and together with what is still buffered they
\* are exactly what it has sent (nothing lost, repeated or out of order); a
\* frame never waits, it can be taken with an empty channel as well.
C11_ConsumerSeesPrefix ==
    /\ log # <<>> =>
         /\ IsPrefix(subdirs, AllSent(log))
         /\ rxAlive => subdirs \o PathsOf(chan) = AllSent(log)
    /\ (rxAlive /\ chan = <<>>) => ENABLED Update

\* some paths of the session have been applied by one frame (two at least,
\* of two roots), more are buffered behind them
C11_Witness ==
    /\ log # <<>> /\ rxAlive
    /\ Len(subdirs) >= 2 /\ Len(chan) >= 2
    /\ subdirs[1] # subdirs[2]
    /\ chan[1].kind = "Subdir" /\ chan[Len(chan)].kind = "Done"

----------------------------------------------------------------------------
(* Roots that cannot be walked *)

\* nothing is at the root path r of the session, or a link that leads nowhere
RootMissing(r) == RootNode(fs, log[1].roots[r]) = 0

\* the root path is something else than a directory
RootNotADir(r) ==
    /\ ~RootMissing(r)
    /\ fs[RootNode(fs, log[1].roots[r])].kind # "dir"

\* the root path is a directory that cannot be opened for reading
RootUnreadable(r) ==
    /\ ~RootMissing(r)
    /\ fs[RootNode(fs, log[1].roots[r])].kind = "dir"
    /\ ~fs[RootNode(fs, log[1].roots[r])].readable

\* C12 as stated: a root that is missing, not a directory or unreadable
\* yields no Subdir message.
C12_Original ==
    \A r \in DOMAIN InitialRoots :
        (log # <<>> /\ WalkOver(r)
         /\ (RootMissing(r) \/ RootNotADir(r) \/ RootUnreadable(r)))
        => SentOf(log, r) = <<>>

\* C12 amended: a root that is missing or not a directory yields no Subdir
\* message; a root directory that cannot be read yields nothing below it,
\* and is itself reported or not, depending on the build target; in all
\* these cases the session goes on: when the task has returned, the walker
\* has been run on every root and Done has been sent.
C12_FailingRootDoesNotAbort ==
    /\ \A r \in DOMAIN InitialRoots :
         (log # <<>> /\ WalkOver(r)) =>
            /\ (RootMissing(r) \/ RootNotADir(r)) =>
                  \A k \in Events : log[k].root = r => ~IsSend(log[k])
            /\ RootUnreadable(r) =>
                  \A k \in Events :
                      (log[k].root = r /\ IsSend(log[k])) => log[k].path = log[1].roots[r]
    /\ \A s \in DOMAIN workers :
         (s = Logged /\ workers[s].pc = "done") =>
            /\ \E k \in Events : IsDone(log[k])
            /\ \A r \in DOMAIN log[1].roots : \E k \in Events : log[k].root = r

\* the second root does not exist: its walk gave one error and nothing
\* else, the third root was walked and reported after it, and Done was sent
C12_Witness ==
    /\ log # <<>> /\ SinkOpen /\ RootMissing(2) /\ WalkOver(2)
    /\ Cardinality({k \in Events : log[k].root = 2}) = 1
    /\ \E k \in Events : log[k].root = 2 /\ log[k].res = "error"
    /\ \E k \in Events : log[k].root = 3 /\ log[k].res = "sent"
    /\ log[Len(log)].res = "done"

----------------------------------------------------------------------------
(* Errors on single entries *)

\* The directories the walk of entry n, reported as `path`, is to yield when
\* an entry that fails is passed over and nothing else: n itself unless it
\* fails to read, leads nowhere, leads back to one of the directories `anc`
\* it lies in, is not a directory or is matched by a pattern; and what the
\* entries of n yield in turn when n can be listed.  Each with the
\* directory it stands for.
RECURSIVE Survivors(_, _, _, _, _)
Survivors(f, path, n, ignore, anc) ==
    LET t == Resolve(f, n, Len(f))
    IN  IF \/ n = 0 \/ t = 0
           \/ f[n].kind = "err" \/ f[t].kind # "dir"
           \/ (f[n].kind = "link" /\ t \in anc)
           \/ ~filter_entry(path, ignore)
        THEN {}
        ELSE {[path |-> path, phys |-> t]}
             \cup UNION { Survivors(f, Join(path, f[c].name), c, ignore, anc \cup {t})
                          : c \in IF f[t].readable THEN Children(f, t) ELSE {} }

\* C13: an entry that fails (it cannot be read, it is a link that leads
\* nowhere) costs that entry and nothing else: when the walk of a root is
\* over and the sink was open, every other directory of the root that no
\* pattern cuts off has been sent, the entries next to the failing one and
\* what lies below them included; and the task is still running or has
\* returned after Done, no error has stopped it.
C13_ErrorSkipsOnlyTheEntry ==
    \A r \in DOMAIN InitialRoots :
        (log # <<>> /\ SinkOpen /\ WalkOver(r)) =>
            LET sent == Range(SentOf(log, r))
                root == log[1].roots[r]
                exp  == Survivors(fs, root, Lookup(fs, root), log[1].ignore, {})
            IN  /\ sent \subseteq {e.path : e \in exp}
                /\ \A e \in exp : e.path \notin sent => ~fs[e.phys].readable
                /\ workers[Logged].pc = "done" => \E k \in Events : IsDone(log[k])

\* in G:\ml = {e, s = {t, b}} the failing entry e was met first, then its
\* neighbour s was sent, and below s the directory t next to the dangling b
C13_Witness ==
    /\ fs = FsErrors /\ log # <<>> /\ SinkOpen /\ WalkOver(2)
    /\ \E j, k \in Events :
          /\ j < k
          /\ log[j].res = "error" /\ log[j].path = Join(RootM, <<"e">>)
          /\ log[k].res = "sent" /\ log[k].path = Join(RootM, <<"s">>)
    /\ \E j, k \in Events :
          /\ j < k
          /\ log[j].res = "error" /\ log[j].path = Join(Join(RootM, <<"s">>), <<"b">>)
          /\ log[k].res = "sent" /\ log[k].path = Join(Join(RootM, <<"s">>), <<"t">>)

----------------------------------------------------------------------------
(* Termination *)

\* the task of session s has not returned
Running(s) == s \in DOMAIN workers /\ workers[s].pc = "walk"

\* one iteration of the loops of the task of session s
WorkerStep(s) ==
    \/ WalkRoot(s) \/ WalkEntry(s) \/ WalkReadDirError(s)
    \/ WalkPop(s) \/ WalkEnd(s) \/ SendDone(s)

\* The blocking task of a session runs on a thread of its own and the
\* application is repainted again and again while its window is open.
LiveSpec ==
    /\ Spec
    /\ \A s \in 1..MaxSessions : WF_vars(Running(s) /\ WorkerStep(s))
    /\ WF_vars(Update)

\* a is one of the directories n lies in
RECURSIVE Above(_, _, _)
Above(f, a, n) == n # 0 /\ (f[n].parent = a \/ Above(f, a, f[n].parent))

\* some symbolic link leads to a directory it lies in
LinkCycle(f) ==
    \E n \in DOMAIN f :
        /\ f[n].kind = "link"
        /\ Resolve(f, n, Len(f)) # 0
        /\ Above(f, Resolve(f, n, Len(f)), n)

\* C14: over a tree without a cycle of symbolic links a session comes to
\* its end: the task of every session that was started sends Done and
\* returns, and indexing_in_progress, once set, is cleared again as long
\* as the window is open and repainted.
C14_SessionTerminates ==
    (~LinkCycle(fs) /\ (indexing_in_progress \/ \E s \in DOMAIN workers : Running(s)))
        ~> /\ \A s \in DOMAIN workers : workers[s].pc = "done"
           /\ ~indexing_in_progress \/ ~rxAlive

\* a second session over a tree without such a cycle has sent Done, and
\* the Done has been taken from the channel
C14_Witness ==
    /\ ~LinkCycle(fs) /\ Logged = 2 /\ rxAlive
    /\ workers[2].pc = "done" /\ ~indexing_in_progress
    /\ \E k \in Events : log[k].res = "done"
    /\ \E k \in Events : log[k].res = "sent"

----------------------------------------------------------------------------
(* The producer does not wait for the consumer *)

\* C15: a task that has not returned can always take its next step,
\* whatever the channel holds and whether or not update has run since the
\* session was started: no send waits for the consumer.
C15_ProducerNeverWaits ==
    \A s \in DOMAIN workers : Running(s) => ENABLED WorkerStep(s)

\* the task has returned while update has not run once since the refresh:
\* everything it sent, Done included, is still in the channel
C15_Witness ==
    /\ Logged # 0 /\ rxAlive
    /\ workers[Logged].pc = "done"
    /\ subdirs = <<>>
    /\ Len(chan) >= 3
    /\ PathsOf(chan) = AllSent(log)
    /\ chan[Len(chan)].kind = "Done"

----------------------------------------------------------------------------
(* Cycles of symbolic links *)

\* C16 as stated: over a tree with a cycle of symbolic links the walk does
\* not end, Done is not sent while the sink is open.
C16_Original ==
    (log # <<>> /\ LinkCycle(fs) /\ SinkOpen) =>
        \A k \in Events : ~IsDone(log[k])

\* no directory is open inside itself
NoDirOpenTwice ==
    \A s \in DOMAIN workers :
        \A j, k \in DOMAIN workers[s].stack :
            workers[s].stack[j].phys = workers[s].stack[k].phys => j = k

\* some link that leads back to a directory it lies in has been met and
\* passed over as an error
LoopPassedOver ==
    \E k \in Events :
        /\ log[k].res = "error"
        /\ \E n \in DOMAIN fs :
              /\ fs[n].kind = "link" /\ fs[n].name = <<log[k].path[Len(log[k].path)]>>
              /\ Above(fs, Resolve(fs, n, Len(fs)), n)

\* C16: links are followed with loop detection: the walker never opens a
\* directory inside itself, and over a tree with a cycle of symbolic links
\* a session still comes to its end, the link that closes the cycle
\* having been passed over as an error when the sink stayed open.
C16_LoopIsCutAndWalkEnds ==
    /\ []NoDirOpenTwice
    /\ (LinkCycle(fs) /\ \E s \in DOMAIN workers : Running(s))
          ~> /\ \A s \in DOMAIN workers : workers[s].pc = "done"
             /\ \E k \in Events : IsDone(log[k])
             /\ SinkOpen => LoopPassedOver

\* over the tree with the cycle, with the sink open, Done has been sent
\* after the link D:\Repos\l was passed over and its neighbour html sent
C16_Witness ==
    /\ LinkCycle(fs) /\ log # <<>> /\ SinkOpen
    /\ \E i, j, k \in Events :
          /\ i < k /\ j < k
          /\ log[i].res = "error" /\ log[i].path = Join(RootD, <<"l">>)
          /\ log[j].res = "sent" /\ log[j].path = Join(RootD, <<"h", "t", "m", "l">>)
          /\ log[k].res = "done"

----------------------------------------------------------------------------
(* One session at a time *)

\* C17: at most one session is in flight: never two tasks that have not
\* returned; the one that has not is that of the latest session, and the
\* flag is set all the while; a refresh can be clicked only when no task
\* is running; when the flag is clear after a session, the task of that
\* session has returned and its Done has been sent and taken from the
\* channel; and the channel holds messages of the latest session only.
C17_OneSessionInFlight ==
    /\ \A s, t \in DOMAIN workers : (Running(s) /\ Running(t)) => s = t
    /\ \A s \in DOMAIN workers :
          Running(s) => (s = Len(workers) /\ indexing_in_progress)
    /\ ENABLED UpdateRefresh => \A s \in DOMAIN workers : ~Running(s)
    /\ (workers # <<>> /\ ~indexing_in_progress) =>
          /\ workers[Len(workers)].pc = "done"
          /\ \E k \in Events : log[k].res = "done"
          /\ \A k \in DOMAIN chan : chan[k].kind # "Done"
    /\ \A k \in DOMAIN chan : chan[k].sess = Len(workers)

\* the second session is in flight with messages of its own in the
\* channel, the task of the first has returned
C17_Witness ==
    /\ Len(workers) = 2 /\ Running(2) /\ workers[1].pc = "done"
    /\ indexing_in_progress /\ rxAlive
    /\ Len(chan) >= 2 /\ chan[1].sess = 2

----------------------------------------------------------------------------
(* What the list shows *)

\* C18: once a session has been started the list holds paths of the latest
\* session only: what it holds is the beginning of what that session has
\* sent, no path of an earlier session and none of the initial
\* placeholders; the channel holds no message of an earlier session; and
\* when the flag is clear again the list is exactly what the session sent,
\* in the order it was sent.
C18_ListIsLatestSession ==
    Logged # 0 =>
        /\ IsPrefix(subdirs, AllSent(log))
        /\ \A k \in DOMAIN subdirs : subdirs[k] \notin Range(InitialSubdirs)
        /\ \A k \in DOMAIN chan : chan[k].sess = Logged
        /\ ~indexing_in_progress =>
              /\ subdirs = AllSent(log)
              /\ chan = <<>>

\* the list after the second session, which followed a first one that had
\* filled the list too
C18_Witness ==
    /\ Logged = 2 /\ ~indexing_in_progress /\ rxAlive
    /\ Len(subdirs) >= 2
    /\ log[1].ignore # InitialIgnore

----------------------------------------------------------------------------
(* The ignore patterns *)

\* C19: no ignore pattern is empty or made of whitespace only, in the list
\* the application holds and in the snapshot a task has taken of it.
C19_NoBlankPattern ==
    /\ \A k \in DOMAIN ignore_patterns : Trim(ignore_patterns[k]) # <<>>
    /\ \A s \in DOMAIN workers : \A k \in DOMAIN workers[s].ignore_list :
          Trim(workers[s].ignore_list[k]) # <<>>

\* "Add" was clicked on " ml ", which was added trimmed, and then on a text
\* of blanks, which was not added and is still in the text box
C19_Witness ==
    /\ new_pattern_input # <<>> /\ Trim(new_pattern_input) = <<>>
    /\ \E k \in DOMAIN ignore_patterns : ignore_patterns[k] = <<"m", "l">>

====
